---------------------------- MODULE Spec2Model ----------------------------
(***************************************************************************)
(* techo (src/techo.py): prints a pixel-art face next to a message.        *)
(* The run is one pass: sanitize the message, count its lines, narrow the  *)
(* face, compute the margin and the message start row, render, flush.      *)
(*                                                                         *)
(* Characters are modelled by name: "a" is an ordinary narrow character,   *)
(* "W" a character whose East-Asian width is F, W or A, " " the space,     *)
(* the other names are control characters and line separators.  A string   *)
(* is a sequence of characters.  Row and column indices are 0-based as in  *)
(* the source; sequences are 1-based, so row l of img is img[l + 1].       *)
(***************************************************************************)
EXTENDS Integers, Sequences, FiniteSets, TLC

-----------------------------------------------------------------------------
(* Bounds of the model. *)

\* longest raw message body drawn from Alphabet
MaxLen == 3
\* longest raw message drawn from SanAlphabet (sanitizer specification)
MaxRawLen == 3
\* largest number of newlines inside the many-line messages
MaxLead == 30
\* largest terminal column count
MaxWidth == 52
\* largest face index rendered pixel by pixel (the six faces differ in
\* colours only, never in which pixels are background)
MaxRenderSeq == 1
\* length of the long one-line message
LongLen == 25

\* smallest terminal column count tried
MinWidth == 49

-----------------------------------------------------------------------------
(* Characters. *)

LF  == "LF"
TAB == "TAB"
SP  == " "

\* the C0 control characters (0x00-0x1F) and DEL (0x7F): the class
\* [\x00-\x1F\x7F] of the regular expression at line 364
C0DEL ==
  { "NUL", "SOH", "STX", "ETX", "EOT", "ENQ", "ACK", "BEL", "BS", "TAB", "LF",
    "VT", "FF", "CR", "SO", "SI", "DLE", "DC1", "DC2", "DC3", "DC4", "NAK",
    "SYN", "ETB", "CAN", "EM", "SUB", "ESC", "FS", "GS", "RS", "US", "DEL" }

\* the line boundaries of str.splitlines(): \n \r \v \f \x1c \x1d \x1e \x85
\*     (and \r\n, handled in SplitLines)
LineBreaks == { "LF", "CR", "VT", "FF", "FS", "GS", "RS", "NEL", "LS", "PS" }

\* unicodedata.east_asian_width(c) in 'FWA'
IsWide(c) == c = "W"

\* display cells of one character as the program counts them
CharWidth(c) == IF IsWide(c) THEN 2 ELSE 1

\* characters of the messages that are rendered
Alphabet == { "a", "W", LF }

\* characters of the messages that are sanitized
SanAlphabet == { "a", "W", TAB, LF, "CR", "SOH", "FF", "NEL", "DEL" }

\* all strings over A of length at most n
Strs(A, n) == UNION { [1..k -> A] : k \in 0..n }

\* n newlines
LFs(n) == [i \in 1..n |-> LF]

-----------------------------------------------------------------------------
(* Sanitizer, lines 361-365. *)

\* msg.replace('\t', ' ')
ReplaceTab(s) == [i \in 1..Len(s) |-> IF s[i] = TAB THEN SP ELSE s[i]]

\* s.rstrip('\n')
RECURSIVE RStripLF(_)
RStripLF(s) ==
  IF s # <<>> /\ s[Len(s)] = LF THEN RStripLF(SubSeq(s, 1, Len(s) - 1)) ELSE s

\* s.splitlines(): the lines found from position i on, cur being the line
\* under construction
RECURSIVE SplitFrom(_, _, _)
SplitFrom(s, i, cur) ==
  IF i > Len(s) THEN (IF cur = <<>> THEN <<>> ELSE <<cur>>)
  ELSE IF s[i] \in LineBreaks
       THEN LET j == IF s[i] = "CR" /\ i < Len(s) /\ s[i + 1] = LF
                     THEN i + 2 ELSE i + 1
            IN  <<cur>> \o SplitFrom(s, j, <<>>)
       ELSE SplitFrom(s, i + 1, Append(cur, s[i]))

SplitLines(s) == SplitFrom(s, 1, <<>>)

\* re.sub(r'[\x00-\x1F\x7F]', '', s)
StripCtl(s) == SelectSeq(s, LAMBDA c : c \notin C0DEL)

\* the loop of lines 362-364: every line, stripped, followed by '\n'
RECURSIVE JoinLines(_)
JoinLines(ls) ==
  IF ls = <<>> THEN <<>>
  ELSE StripCtl(Head(ls)) \o <<LF>> \o JoinLines(Tail(ls))

\* the sanitized text without the '\n' after its last line
SanitizerUnterminated(raw) ==
  LET t == JoinLines(SplitLines(RStripLF(ReplaceTab(raw))))
  IN  IF t = <<>> THEN t ELSE SubSeq(t, 1, Len(t) - 1)

Sanitizer(raw) == JoinLines(SplitLines(RStripLF(ReplaceTab(raw))))

\* msg.count('\n')
CountLF(s) == Cardinality({ i \in 1..Len(s) : s[i] = LF })

\* countChar, lines 409-415
RECURSIVE countChar(_)
countChar(s) ==
  IF s = <<>> THEN 0 ELSE CharWidth(Head(s)) + countChar(Tail(s))

-----------------------------------------------------------------------------
(* The face table, lines 115-306; "." is background, a digit a palette     *)
(* index.                                                                  *)

img0 ==
  << <<".",".",".",".",".",".",".",".",".",".",".","1","1","2",".",".",".",".",".",".",".",".",".",".",".">>,
     <<".",".",".",".",".",".",".",".",".",".","1","2",".",".",".",".",".",".",".",".",".",".",".",".",".">>,
     <<".",".",".",".",".",".",".",".",".",".","2",".",".",".",".",".",".",".",".",".",".",".",".",".",".">>,
     <<".",".",".",".",".",".",".",".",".",".",".","2",".",".",".",".",".",".",".",".",".",".",".",".",".">>,
     <<".",".",".",".",".",".",".",".",".",".","1","2",".","1","1","1","1","3",".",".",".","1","3",".",".">>,
     <<".",".",".",".",".","1","2",".",".","1","1","1","1","1","2","1","1","1","3",".","1","1","1","3","3">>,
     <<".",".",".","1","1","1","2",".",".","1","2","1","1","1","1","2","1","1","1","3",".","1","1","1","3">>,
     <<".",".","1","1","2",".","2",".","1","1","1","1","1","1","2","1","1","1","1","1","1","1","1","1","3">>,
     <<".",".","1","2",".","2",".","1","1","1","1","1","1","1","1","1","1","1","1","2","1","1","1","1","3">>,
     <<".",".",".",".","1","1","1","1","1","1","1","1","1","1","1","1","1","1","1","2","1","1","1","1","3">>,
     <<".",".","1","2",".","3","1","1","1","2","1","1","1","1","2","1","1","1","1","1","1","1","2","1","3">>,
     <<".",".","1","2",".","3","2","1","1","2","2","1","1","1","2","2","1","1","1","1","2","2","1","2","3">>,
     <<".",".","1","1","2",".","3","1","1","2","1","2","2","1","1","2","2","1","1","1","2","1","2","1","3">>,
     <<".",".",".","1","2",".","3","1","2","1","1","6","1","2","1","2","2","1","1","1","1","2","1","2","3">>,
     <<".",".",".","1","1","2",".","3","2","2","6","6","1","1","6","6","6","2","1","1","1","1","2","1","3">>,
     <<".",".",".",".","1","2",".","3","5","5","4","0","5","1","6","4","0","6","2","1","3",".","3",".",".">>,
     <<".",".",".",".","1","1","2","1","1","5","5","5","5","5","5","5","5","6","1","3",".",".","1","3",".">>,
     <<".",".",".",".",".","1","2",".","1","5","5","5","5","6","5","5","6","6","3",".",".","1","2","3",".">>,
     <<".",".",".",".",".","1","1",".",".","1","5","5","5","5","5","5","5","6",".",".",".","1","1","3",".">>,
     <<".",".",".",".",".",".","1","1",".",".",".","5","0","0","0","5","6",".",".",".",".",".","3",".",".">>,
     <<".",".",".",".",".",".",".",".",".",".",".",".","5","5","5","6",".",".",".",".",".",".","3",".",".">>,
     <<".",".",".",".",".",".",".",".",".",".",".",".",".","6","6","6",".",".",".",".",".",".",".",".",".">>,
     <<".",".",".",".",".",".",".",".",".",".",".","7","7","6","6","7","8",".",".",".",".",".",".",".",".">>,
     <<".",".",".",".",".",".",".",".","5","7","7","1","7","7","7","7","1","8","8",".",".",".",".",".",".">>,
     <<".",".",".",".",".",".",".","5","6","7","7","1","7","1","7","1","7","7","7","8","5","6",".",".",".">>,
     <<".",".",".",".",".",".","5","6","7","7","7","7","1","8","1","7","7","7","8","5","5","5","6",".",".">>,
     <<".",".",".",".",".","5","5","6","7","7","7","7","7","1","7","7","7","7","8","5","5","5","6",".",".">>,
     <<".",".",".",".",".","5","5","6","7","7","7","7","7","7","7","7","7","8","5","5","5","6",".",".",".">> >>

img1 ==
  << <<".",".",".",".",".",".",".",".",".",".",".","1","1","2",".",".",".",".",".",".",".",".",".",".",".">>,
     <<".",".",".",".",".",".",".",".",".",".","1","2",".",".",".",".",".",".",".",".",".",".",".",".",".">>,
     <<".",".",".",".",".",".",".",".",".",".","2",".",".",".",".",".",".",".",".",".",".",".",".",".",".">>,
     <<".",".",".",".",".",".",".",".",".",".",".","2",".",".",".",".",".",".",".",".",".",".",".",".",".">>,
     <<".",".",".",".",".",".",".",".",".",".","1","2",".","1","1","1","1","3",".",".",".","1","3",".",".">>,
     <<".",".",".",".",".","1","2",".",".","1","1","1","1","1","1","1","1","1","3",".","1","1","1","3","3">>,
     <<".",".",".","1","1","1","2",".",".","1","2","1","1","1","1","2","1","1","1","3",".","1","1","1","3">>,
     <<".",".","1","1","2",".","2",".","1","1","1","1","1","1","2","1","1","1","1","1","1","2","1","1","3">>,
     <<".",".","1","2",".","2",".","1","1","1","1","1","1","1","1","1","1","1","1","2","1","1","1","1","3">>,
     <<".",".",".",".","1","1","1","1","1","1","1","1","1","1","1","1","1","1","1","2","1","1","1","1","3">>,
     <<".",".","1","2",".","3","1","1","1","2","1","1","1","1","2","1","1","1","1","1","1","1","2","1","3">>,
     <<".",".","1","2",".","3","2","1","1","2","2","1","1","1","1","2","1","1","1","1","2","2","1","2","3">>,
     <<".",".","1","1","2",".","3","1","1","2","6","2","1","1","5","6","2","1","1","1","2","1","2","1","3">>,
     <<".",".",".","1","2",".","3","1","2","5","5","6","2","1","5","5","6","1","1","1","1","2","1","2","3">>,
     <<".",".",".","1","1","2",".","3","2","5","0","5","6","1","5","0","5","5","2","1","1","1","2","1","3">>,
     <<".",".",".",".","1","2",".","3","1","0","5","0","5","5","0","5","0","5","2","1","3",".","3",".",".">>,
     <<".",".",".",".","1","1","2","1","1","5","5","5","5","5","5","5","5","6","1","3",".",".","1","3",".">>,
     <<".",".",".",".",".","1","2",".","1","5","5","5","5","5","5","5","6","6","1",".",".","1","2","3",".">>,
     <<".",".",".",".",".","1","1",".",".","1","5","0","1","1","0","5","6","6",".",".",".","1","1","3",".">>,
     <<".",".",".",".",".",".","1","1",".",".",".","5","0","0","5","5","6",".",".",".",".",".","3",".",".">>,
     <<".",".",".",".",".",".",".",".",".",".",".",".","5","5","5","6",".",".",".",".",".",".","3",".",".">>,
     <<".",".",".",".",".",".",".",".",".",".",".",".",".","6","6","6",".",".",".",".",".",".",".",".",".">>,
     <<".",".",".",".",".",".",".",".",".",".",".","7","7","6","6","7","8",".",".",".",".",".",".",".",".">>,
     <<".",".",".",".",".",".",".",".","5","7","7","1","7","7","7","7","1","8","8",".",".",".",".",".",".">>,
     <<".",".",".",".",".",".",".","5","6","7","7","1","7","1","7","1","7","7","7","8","5","6",".",".",".">>,
     <<".",".",".",".",".",".","5","6","7","7","7","7","1","8","1","7","7","7","8","5","5","5","6",".",".">>,
     <<".",".",".",".",".","5","5","6","7","7","7","7","7","1","7","7","7","7","8","5","5","5","6",".",".">>,
     <<".",".",".",".",".","5","5","6","7","7","7","7","7","7","7","7","7","8","5","5","5","6",".",".",".">> >>

img2 ==
  << <<".",".",".",".",".",".",".",".",".",".",".","1","1","2",".",".",".",".",".",".",".",".",".",".",".">>,
     <<".",".",".",".",".",".",".",".",".",".","1","2",".",".",".",".",".",".",".",".",".",".",".",".",".">>,
     <<".",".",".",".",".",".",".",".",".",".","2",".",".",".",".",".",".",".",".",".",".",".",".",".",".">>,
     <<".",".",".",".",".",".",".",".",".",".",".","2",".",".",".",".",".",".",".",".",".",".",".",".",".">>,
     <<".",".",".",".",".",".",".",".",".",".","1","2",".","1","1","1","1","3",".",".",".","1","3",".",".">>,
     <<".",".",".",".",".","1","2",".",".","1","1","1","1","1","2","1","1","1","3",".","1","1","1","3","3">>,
     <<".",".",".","1","1","1","2",".",".","1","2","1","1","1","1","2","1","1","1","3",".","1","1","1","3">>,
     <<".",".","1","1","2",".","2",".","1","1","1","1","1","1","2","1","1","1","1","1","1","1","1","1","3">>,
     <<".",".","1","2",".","2",".","1","1","1","1","1","1","1","1","1","1","1","1","2","1","1","1","1","3">>,
     <<".",".",".",".","1","1","1","1","1","1","1","1","1","1","1","1","1","1","1","2","1","1","1","1","3">>,
     <<".",".","1","2",".","3","1","1","1","2","1","1","1","1","2","1","1","1","1","1","1","1","2","1","3">>,
     <<".",".","1","2",".","3","2","1","1","2","2","1","1","1","2","2","1","1","1","1","2","2","1","2","3">>,
     <<".",".","1","1","2",".","3","1","1","2","1","2","2","1","1","2","2","1","1","1","2","1","2","1","3">>,
     <<".",".",".","1","2",".","3","1","2","1","1","6","1","2","1","2","2","1","1","1","1","2","1","2","3">>,
     <<".",".",".","1","1","2",".","3","2","2","6","6","1","1","6","6","6","2","1","1","1","1","2","1","3">>,
     <<".",".",".",".","1","2",".","3","5","5","4","0","5","1","6","4","0","6","2","1","3",".","3",".",".">>,
     <<".",".",".",".","1","1","2","1","1","5","5","5","5","5","5","5","5","6","1","3",".",".","1","3",".">>,
     <<".",".",".",".",".","1","2",".","1","5","5","5","5","5","5","5","6","6","3",".",".","1","2","3",".">>,
     <<".",".",".",".",".","1","1",".",".","1","5","0","1","1","0","5","5","6",".",".",".","1","1","3",".">>,
     <<".",".",".",".",".",".","1","1",".",".",".","5","0","0","5","5","6",".",".",".",".",".","3",".",".">>,
     <<".",".",".",".",".",".",".",".",".",".",".",".","5","5","5","6",".",".",".",".",".",".","3",".",".">>,
     <<".",".",".",".",".",".",".",".",".",".",".",".",".","6","6","6",".",".",".",".",".",".",".",".",".">>,
     <<".",".",".",".",".",".",".",".",".",".",".","7","7","6","6","7","8",".",".",".",".",".",".",".",".">>,
     <<".",".",".",".",".",".",".",".","5","7","7","1","7","7","7","7","1","8","8",".",".",".",".",".",".">>,
     <<".",".",".",".",".",".",".","5","6","7","7","1","7","1","7","1","7","7","7","8","5","6",".",".",".">>,
     <<".",".",".",".",".",".","5","6","7","7","7","7","1","8","1","7","7","7","8","5","5","5","6",".",".">>,
     <<".",".",".",".",".","5","5","6","7","7","7","7","7","1","7","7","7","7","8","5","5","5","6",".",".">>,
     <<".",".",".",".",".","5","5","6","7","7","7","7","7","7","7","7","7","8","5","5","5","6",".",".",".">> >>

img3 ==
  << <<".",".",".",".",".",".",".",".",".",".",".","1","1","2",".",".",".",".",".",".",".",".",".",".",".">>,
     <<".",".",".",".",".",".",".",".",".",".","1","2",".",".",".",".",".",".",".",".",".",".",".",".",".">>,
     <<".",".",".",".",".",".",".",".",".",".","2",".",".",".",".",".",".",".",".",".",".",".",".",".",".">>,
     <<".",".",".",".",".",".",".",".",".",".",".","2",".",".",".",".",".",".",".",".",".",".",".",".",".">>,
     <<".",".",".",".",".",".",".",".",".",".","1","2",".","1","1","1","1","3",".",".",".","1","3",".",".">>,
     <<".",".",".",".",".","1","2",".",".","1","1","1","1","1","2","1","1","1","3",".","1","1","1","3","3">>,
     <<".",".",".","1","1","1","2",".",".","1","2","1","1","1","1","2","1","1","1","3",".","1","1","1","3">>,
     <<".",".","1","1","2",".","2",".","1","1","1","1","1","1","2","1","1","1","1","1","1","1","1","1","3">>,
     <<".",".","1","2",".","2",".","1","1","1","1","1","1","1","1","1","1","1","1","2","1","1","1","1","3">>,
     <<".",".",".",".","1","1","1","1","1","1","1","1","1","1","1","1","1","1","1","2","1","1","1","1","3">>,
     <<".",".","1","2",".","3","1","1","1","2","1","1","1","1","2","1","1","1","1","1","1","1","2","1","3">>,
     <<".",".","1","2",".","3","2","1","1","2","2","1","1","1","2","2","1","1","1","1","2","2","1","2","3">>,
     <<".",".","1","1","2",".","3","1","1","2","1","2","2","1","1","2","2","1","1","1","2","1","2","1","3">>,
     <<".",".",".","1","2",".","3","1","2","1","1","6","1","2","1","2","2","1","1","1","1","2","1","2","3">>,
     <<".",".",".","1","1","2",".","3","2","2","0","0","0","1","6","0","0","0","1","1","1","1","2","1","3">>,
     <<".",".",".",".","1","2",".","3","5","5","0","4","5","1","6","0","4","6","2","1","3",".","3",".",".">>,
     <<".",".",".",".","1","1","2","1","1","5","5","5","5","5","5","5","5","6","1","3",".",".","1","3",".">>,
     <<".",".",".",".",".","1","2",".","1","5","5","5","5","6","5","5","6","6","3",".",".","1","2","3",".">>,
     <<".",".",".",".",".","1","1",".",".","1","5","5","5","5","5","5","5","6",".",".",".","1","1","3",".">>,
     <<".",".",".",".",".",".","1","1",".",".",".","5","0","1","0","5","6",".",".",".",".",".","3",".",".">>,
     <<".",".",".",".",".",".",".",".",".",".",".",".","5","5","5","6",".",".",".",".",".",".","3",".",".">>,
     <<".",".",".",".",".",".",".",".",".",".",".",".",".","6","6","6",".",".",".",".",".",".",".",".",".">>,
     <<".",".",".",".",".",".",".",".",".",".",".","7","7","6","6","7","8",".",".",".",".",".",".",".",".">>,
     <<".",".",".",".",".",".",".",".","5","7","7","1","7","7","7","7","1","8","8",".",".",".",".",".",".">>,
     <<".",".",".",".",".",".",".","5","6","7","7","1","7","1","7","1","7","7","7","8","5","6",".",".",".">>,
     <<".",".",".",".",".",".","5","6","7","7","7","7","1","8","1","7","7","7","8","5","5","5","6",".",".">>,
     <<".",".",".",".",".","5","5","6","7","7","7","7","7","1","7","7","7","7","8","5","5","5","6",".",".">>,
     <<".",".",".",".",".","5","5","6","7","7","7","7","7","7","7","7","7","8","5","5","5","6",".",".",".">> >>

img4 ==
  << <<".",".",".",".",".",".",".",".",".",".",".","1","1","2",".",".",".",".",".",".",".",".",".",".",".">>,
     <<".",".",".",".",".",".",".",".",".",".","1","2",".",".",".",".",".",".",".",".",".",".",".",".",".">>,
     <<".",".",".",".",".",".",".",".",".",".","2",".",".",".",".",".",".",".",".",".",".",".",".",".",".">>,
     <<".",".",".",".",".",".",".",".",".",".",".","2",".",".",".",".",".",".",".",".",".",".",".",".",".">>,
     <<".",".",".",".",".",".",".",".",".",".","1","2",".","1","1","1","1","3",".",".",".","1","3",".",".">>,
     <<".",".",".",".",".","1","2",".",".","1","1","1","1","1","2","1","1","1","3",".","1","1","1","3","3">>,
     <<".",".",".","1","1","1","2",".",".","1","2","1","1","1","1","2","1","1","1","3",".","1","1","1","3">>,
     <<".",".","1","1","2",".","2",".","1","1","1","1","1","1","2","1","1","1","1","1","1","1","1","1","3">>,
     <<".",".","1","2",".","2",".","1","1","1","1","1","1","1","1","1","1","1","1","2","1","1","1","1","3">>,
     <<".",".",".",".","1","1","1","1","1","1","1","1","1","1","1","1","1","1","1","2","1","1","1","1","3">>,
     <<".",".","1","2",".","3","1","1","1","2","1","1","1","1","2","1","1","1","1","1","1","1","2","1","3">>,
     <<".",".","1","2",".","3","2","1","1","2","2","1","1","1","2","2","1","1","1","1","2","2","1","2","3">>,
     <<".",".","1","1","2",".","3","1","1","2","1","2","2","1","1","2","2","1","1","1","2","1","2","1","3">>,
     <<".",".",".","1","2",".","3","1","2","1","0","1","1","2","1","0","2","1","1","1","1","2","1","2","3">>,
     <<".",".",".","1","1","2",".","3","2","0","5","0","5","1","0","5","0","2","1","1","1","1","2","1","3">>,
     <<".",".",".",".","1","2",".","3","5","0","5","0","5","5","0","5","0","6","2","1","3",".","3",".",".">>,
     <<".",".",".",".","1","1","2","1","1","5","0","5","5","5","5","0","5","6","1","3",".",".","1","3",".">>,
     <<".",".",".",".",".","1","2",".","1","5","5","5","5","5","5","5","5","6","3",".",".","1","2","3",".">>,
     <<".",".",".",".",".","1","1",".",".","1","5","5","0","0","0","5","5","6",".",".",".","1","1","3",".">>,
     <<".",".",".",".",".",".","1","1",".",".",".","5","0","1","0","5","6",".",".",".",".",".","3",".",".">>,
     <<".",".",".",".",".",".",".",".",".",".",".",".","5","5","5","6",".",".",".",".",".",".","3",".",".">>,
     <<".",".",".",".",".",".",".",".",".",".",".",".",".","6","6","6",".",".",".",".",".",".",".",".",".">>,
     <<".",".",".",".",".",".",".",".",".",".",".","7","7","6","6","7","8",".",".",".",".",".",".",".",".">>,
     <<".",".",".",".",".",".",".",".","5","7","7","1","7","7","7","7","1","8","8",".",".",".",".",".",".">>,
     <<".",".",".",".",".",".",".","5","6","7","7","1","7","1","7","1","7","7","7","8","5","6",".",".",".">>,
     <<".",".",".",".",".",".","5","6","7","7","7","7","1","8","1","7","7","7","8","5","5","5","6",".",".">>,
     <<".",".",".",".",".","5","5","6","7","7","7","7","7","1","7","7","7","7","8","5","5","5","6",".",".">>,
     <<".",".",".",".",".","5","5","6","7","7","7","7","7","7","7","7","7","8","5","5","5","6",".",".",".">> >>

img5 ==
  << <<".",".",".",".",".",".",".",".",".",".",".","1","1","2",".",".",".",".",".",".",".",".",".",".",".">>,
     <<".",".",".",".",".",".",".",".",".",".","1","2",".",".",".",".",".",".",".",".",".",".",".",".",".">>,
     <<".",".",".",".",".",".",".",".",".",".","2",".",".",".",".",".",".",".",".",".",".",".",".",".",".">>,
     <<".",".",".",".",".",".",".",".",".",".",".","2",".",".",".",".",".",".",".",".",".",".",".",".",".">>,
     <<".",".",".",".",".",".",".",".",".",".","1","2",".","1","1","1","1","3",".",".",".","1","3",".",".">>,
     <<".",".",".",".",".","1","2",".",".","1","1","1","1","1","2","1","1","1","3",".","1","1","1","3","3">>,
     <<".",".",".","1","1","1","2",".",".","1","2","1","1","1","1","2","1","1","1","3",".","1","1","1","3">>,
     <<".",".","1","1","2",".","2",".","1","1","1","1","1","1","2","1","1","1","1","1","1","1","1","1","3">>,
     <<".",".","1","2",".","2",".","1","1","1","1","1","1","1","1","1","1","1","1","2","1","1","1","1","3">>,
     <<".",".",".",".","1","1","1","1","1","1","1","1","1","1","1","1","1","1","1","2","1","1","1","1","3">>,
     <<".",".","1","2",".","3","1","1","1","2","1","1","1","1","2","1","1","1","1","1","1","1","2","1","3">>,
     <<".",".","1","2",".","3","2","1","1","2","2","1","1","1","2","2","1","1","1","1","2","2","1","2","3">>,
     <<".",".","1","1","2",".","3","1","1","2","1","2","2","1","1","2","2","1","1","1","2","1","2","1","3">>,
     <<".",".",".","1","2",".","3","1","2","1","1","1","1","2","1","2","2","1","1","1","1","2","1","2","3">>,
     <<".",".",".","1","1","2",".","3","2","0","0","0","1","1","0","0","0","2","1","1","1","1","2","1","3">>,
     <<".",".",".",".","1","2",".","3","5","5","4","5","5","5","5","4","5","6","2","1","3",".","3",".",".">>,
     <<".",".",".",".","1","1","2","1","1","0","0","0","5","5","0","0","0","6","1","3",".",".","1","3",".">>,
     <<".",".",".",".",".","1","2",".","1","5","6","5","5","6","5","5","6","6","3",".",".","1","2","3",".">>,
     <<".",".",".",".",".","1","1",".",".","1","5","5","5","5","5","5","5","6",".",".",".","1","1","3",".">>,
     <<".",".",".",".",".",".","1","1",".",".",".","5","0","1","0","5","6",".",".",".",".",".","3",".",".">>,
     <<".",".",".",".",".",".",".",".",".",".",".",".","5","5","5","6",".",".",".",".",".",".","3",".",".">>,
     <<".",".",".",".",".",".",".",".",".",".",".",".",".","6","6","6",".",".",".",".",".",".",".",".",".">>,
     <<".",".",".",".",".",".",".",".",".",".",".","7","7","6","6","7","8",".",".",".",".",".",".",".",".">>,
     <<".",".",".",".",".",".",".",".","5","7","7","1","7","7","7","7","1","8","8",".",".",".",".",".",".">>,
     <<".",".",".",".",".",".",".","5","6","7","7","1","7","1","7","1","7","7","7","8","5","6",".",".",".">>,
     <<".",".",".",".",".",".","5","6","7","7","7","7","1","8","1","7","7","7","8","5","5","5","6",".",".">>,
     <<".",".",".",".",".","5","5","6","7","7","7","7","7","1","7","7","7","7","8","5","5","5","6",".",".">>,
     <<".",".",".",".",".","5","5","6","7","7","7","7","7","7","7","7","7","8","5","5","5","6",".",".",".">> >>

imgTable == <<img0, img1, img2, img3, img4, img5>>


\* number of faces, len(img)
NumFaces == Len(imgTable)

-----------------------------------------------------------------------------
(* State. *)

VARIABLES
  pc,         \* position of the run in the script
  msg,        \* the message: raw until sanitized, then the sanitized text
  showWhole,  \* FALSE when -d was given
  imgSeq,     \* face number
  align,      \* "R" or "L"
  width,      \* shutil.get_terminal_size().columns
  img,        \* img[imgSeq], the only entry of the table the run touches
  lineNum,    \* number of message lines, at least 1
  yStart,     \* first row kept by the narrowing (0 until assigned)
  yEnd,       \* row after the last row kept (0 until assigned)
  mWidth,     \* width - 2 * row length (0 until assigned)
  msgStart,   \* first row on which the message may appear
  msgStart2,  \* vertically centred candidate
  msgChars,   \* the queue of characters not yet written
  l,          \* row being rendered
  col,        \* number of pixels of row l already rendered (outRight)
  msgok,      \* outRight: message output allowed at this pixel
  x,          \* outLeft: cursor column
  out,        \* what standard output holds on its current line
  nlines,     \* number of line breaks written to standard output
  lastLine,   \* the last line of standard output ended by a line break
  printed,    \* message characters written to standard output, in order
  flushed,    \* the text written after the last row
  rowPopped,  \* characters taken from msgChars on row l, in order
  err         \* lines written to the diagnostic stream

vars == << pc, msg, showWhole, imgSeq, align, width, img, lineNum, yStart,
           yEnd, mWidth, msgStart, msgStart2, msgChars, l, col, msgok, x,
           out, nlines, lastLine, printed, flushed, rowPopped, err >>

inputs == << showWhole, imgSeq, align, width >>
layout == << lineNum, yStart, yEnd, mWidth, msgStart, msgStart2 >>
render == << msgChars, l, col, msgok, x, rowPopped >>
stdout == << out, nlines, lastLine, printed, flushed >>

\* the raw messages that are laid out and rendered: every short string,
\* the messages of 2..MaxLead+1 lines "a", empty lines, "W", and one line
\* of LongLen wide characters
RawMsgs ==
  Strs(Alphabet, MaxLen)
    \cup { <<"a">> \o LFs(n) \o <<"W">> : n \in 1..MaxLead }
    \cup { [i \in 1..LongLen |-> "W"] }

Widths == MinWidth..MaxWidth

\* the state after argument processing and reading the message,
\* lines 315-352
Start(raws, seqs) ==
  /\ pc = "sanitize"
  /\ msg \in raws
  /\ showWhole \in BOOLEAN
  /\ imgSeq \in seqs
  /\ align \in {"R", "L"}
  /\ width \in Widths
  /\ img = imgTable[imgSeq + 1]
  /\ lineNum = 0 /\ yStart = 0 /\ yEnd = 0 /\ mWidth = 0
  /\ msgStart = 0 /\ msgStart2 = 0
  /\ msgChars = <<>> /\ l = 0 /\ col = 0 /\ msgok = FALSE /\ x = 0
  /\ out = <<>> /\ nlines = 0 /\ lastLine = <<>>
  /\ printed = <<>> /\ flushed = <<>>
  /\ rowPopped = <<>> /\ err = <<>>

Init == Start(RawMsgs, 0..MaxRenderSeq)

InitLayout == Start(RawMsgs, 0..(NumFaces - 1))

InitSan == Start(Strs(SanAlphabet, MaxRawLen), {0})

-----------------------------------------------------------------------------
(* Lines 361-372: sanitize, count the lines. *)

Sanitize ==
  /\ pc = "sanitize"
  /\ msg' = Sanitizer(msg)
  /\ pc' = "count"
  /\ UNCHANGED << inputs, img, layout, render, stdout, err >>

CountLines ==
  /\ pc = "count"
  /\ lineNum' = IF CountLF(msg) <= 0 THEN 1 ELSE CountLF(msg)
  /\ pc' = "narrow"
  /\ UNCHANGED << msg, inputs, img, yStart, yEnd, mWidth, msgStart,
                  msgStart2, render, stdout, err >>

-----------------------------------------------------------------------------
(* Lines 378-387: narrow the face. *)

\* s[a:b] of Python, a and b any integers
PySlice(s, a, b) ==
  LET n  == Len(s)
      a1 == IF a < 0 THEN (IF a + n < 0 THEN 0 ELSE a + n)
                     ELSE (IF a > n THEN n ELSE a)
      b1 == IF b < 0 THEN (IF b + n < 0 THEN 0 ELSE b + n)
                     ELSE (IF b > n THEN n ELSE b)
  IN  SubSeq(s, a1 + 1, b1)

\* yStart of lines 379-385 for a face of H rows and L message lines
WindowStart(H, L) ==
  IF L < 6 THEN (H \div 2) - (6 \div 2) + 2
  ELSE IF L + 2 < H THEN (H \div 2) - (L \div 2) + 1
  ELSE 0

\* yEnd of lines 380-386
WindowEnd(H, L) ==
  IF L < 6 THEN WindowStart(H, L) + 6
  ELSE IF L + 2 < H THEN WindowStart(H, L) + L + 1
  ELSE H

Narrow ==
  /\ pc = "narrow"
  /\ IF showWhole = FALSE
     THEN /\ yStart' = WindowStart(Len(img), lineNum)
          /\ yEnd' = WindowEnd(Len(img), lineNum)
          /\ img' = PySlice(img, yStart', yEnd')
     ELSE UNCHANGED << yStart, yEnd, img >>
  /\ pc' = "margin"
  /\ UNCHANGED << msg, inputs, lineNum, mWidth, msgStart, msgStart2,
                  render, stdout, err >>

-----------------------------------------------------------------------------
(* Lines 393-403: horizontal margin, narrow-screen check. *)

Dots(n) == [i \in 1..n |-> "."]

\* a zero margin taken to fit
MarginFitsZero(mW) == mW >= 0

\* the test of line 396
MarginFits(mW) == mW > 0

Margin ==
  /\ pc = "margin"
  /\ IF align = "R"
     THEN /\ mWidth' = width - Len(img[1]) * 2
          /\ IF MarginFits(mWidth')
             THEN /\ img' = [i \in 1..Len(img) |->
                               Dots(mWidth' \div 2) \o img[i]]
                  /\ pc' = "start"
                  /\ err' = err
             ELSE /\ err' = Append(err, "warning: too narrow screen")
                  /\ pc' = "exit"
                  /\ img' = img
     ELSE /\ pc' = "start"
          /\ UNCHANGED << mWidth, img, err >>
  /\ UNCHANGED << msg, inputs, lineNum, yStart, yEnd, msgStart, msgStart2,
                  render, stdout >>

-----------------------------------------------------------------------------
(* Lines 421-442: the row on which the message starts. *)

\* int(n / 2) for any integer n: Python's int() truncates toward zero
TruncHalf(n) == IF n >= 0 THEN n \div 2 ELSE -((-n) \div 2)

\* the inner loop of lines 427-429: leading background pixels of a row
RECURSIVE LeadingDots(_)
LeadingDots(row) ==
  IF row # <<>> /\ Head(row) = "." THEN 1 + LeadingDots(Tail(row)) ELSE 0

\* row visited at step s of the scan, line 426
ScanRow(H, s) ==
  (H \div 2) + ((s + 1) \div 2) * (IF s % 2 = 0 THEN 1 ELSE -1)

\* the scan stopping as soon as the count meets the width
ScanStopsAtEqual(outN, N) == outN <= N

\* the test of line 430
ScanStops(outN, N) == outN < N

\* the loop of lines 425-432 from step s on, N cells counted so far;
\* msgStart keeps its initial 0 when the loop runs out
RECURSIVE Scan(_, _, _, _)
Scan(im, outN, s, N) ==
  IF s >= Len(im) THEN 0
  ELSE LET N2 == N + 2 * LeadingDots(im[ScanRow(Len(im), s) + 1])
       IN  IF ScanStops(outN, N2)
           THEN (Len(im) \div 2) - ((s + 1) \div 2)
           ELSE Scan(im, outN, s + 1, N2)

\* msgStart2 of lines 433-434 and 440-441
Centred(H, L) ==
  LET m == TruncHalf(H - L + 1) IN IF m < 0 THEN 0 ELSE m

\* row[::-1]
Reverse(row) == [i \in 1..Len(row) |-> row[Len(row) + 1 - i]]

ComputeStart ==
  /\ pc = "start"
  /\ msgStart2' = Centred(Len(img), lineNum)
  /\ IF align = "R"
     THEN /\ LET m == Scan(img, countChar(msg), 0, 0)
             IN  msgStart' = IF m > msgStart2' THEN msgStart2' ELSE m
          /\ img' = img
     ELSE /\ img' = [i \in 1..Len(img) |-> Reverse(img[i])]
          /\ LET m == Len(img) - lineNum
             IN  msgStart' = IF m > msgStart2' THEN msgStart2' ELSE m
  /\ pc' = "render"
  /\ UNCHANGED << msg, inputs, lineNum, yStart, yEnd, mWidth, render,
                  stdout, err >>

NextLayout == Sanitize \/ CountLines \/ Narrow \/ Margin \/ ComputeStart

SpecLayout == InitLayout /\ [][NextLayout]_vars

NextSan == Sanitize

SpecSan == InitSan /\ [][NextSan]_vars

-----------------------------------------------------------------------------
(* What is written to standard output.  An item is one character or one    *)
(* escape sequence; a character is tagged with where it comes from: "msg"  *)
(* a message character, "pad" a space the program supplies.                *)

\* lines 91-105
palette ==
  << "2d272a", "ff0026", "cc001e", "b3001a", "ee0e46", "f6cdcb", "f79ca1",
     "925b6e", "76445f" >>

\* int(color)
DigitVal(d) ==
  CASE d = "0" -> 0 [] d = "1" -> 1 [] d = "2" -> 2 [] d = "3" -> 3
    [] d = "4" -> 4 [] d = "5" -> 5 [] d = "6" -> 6 [] d = "7" -> 7
    [] d = "8" -> 8 [] d = "9" -> 9

\* "\033[0m"
Reset == [k |-> "esc", c |-> "0"]

\* "\033[48;2;r;g;bm" for a face pixel, lines 457-458 and 507-508
Colour(color) == [k |-> "esc", c |-> palette[DigitVal(color) + 1]]

\* the colour setting of one pixel, lines 505-508
PixelEsc(color) == IF color = "." THEN Reset ELSE Colour(color)

Pad == [k |-> "pad", c |-> SP]

Msg(c) == [k |-> "msg", c |-> c]

\* ' ' * n
Pads(n) == [i \in 1..n |-> Pad]

\* display cells of what a line holds
RECURSIVE Cells(_)
Cells(line) ==
  IF line = <<>> THEN 0
  ELSE (IF Head(line).k = "esc" THEN 0 ELSE CharWidth(Head(line).c))
       + Cells(Tail(line))

\* the message characters among the items
MsgOf(items) ==
  LET ms == SelectSeq(items, LAMBDA it : it.k = "msg")
  IN  [i \in 1..Len(ms) |-> ms[i].c]

-----------------------------------------------------------------------------
(* outRight, lines 489-544. *)

\* lines 490-491
ROutBegin ==
  /\ pc = "render" /\ align # "L"
  /\ msgChars' = msg
  /\ out' = Append(out, Reset)
  /\ pc' = "R_row"
  /\ UNCHANGED << msg, inputs, img, layout, l, col, msgok, x, rowPopped,
                  nlines, lastLine, printed, flushed, err >>

\* message output allowed on every row
RowMsgOkAlways(r, start) == TRUE

\* msgok at the start of row r, lines 495-496
RowMsgOk(r, start) == ~(r < start)

\* loop head of line 492 and lines 495-496
RRow ==
  /\ pc = "R_row"
  /\ IF l < Len(img)
     THEN /\ msgok' = RowMsgOk(l, msgStart)
          /\ col' = 0
          /\ rowPopped' = <<>>
          /\ pc' = "R_px"
     ELSE /\ pc' = "R_flush"
          /\ UNCHANGED << msgok, col, rowPopped >>
  /\ UNCHANGED << msg, inputs, img, layout, msgChars, l, x, stdout, err >>

\* the narrow character written without its trailing space
PadSingleBare(outc) == << [k |-> "msg", c |-> outc] >>

\* line 531 and line 541: a narrow character with no narrow partner
PadSingle(outc) == << Msg(outc), Pad >>

\* the pair written without its second character
PairOutFirstOnly(outc, outc2) == << [k |-> "msg", c |-> outc], [k |-> "pad", c |-> SP] >>

\* lines 535-539: a narrow character and the narrow character after it
PairOut(outc, outc2) == << Msg(outc), IF outc2 = LF THEN Pad ELSE Msg(outc2) >>

\* lines 512-542: what one pixel position takes from the queue q and writes
\* after the colour setting, ok being msgok after line 501;
\* [take: characters popped, emit: items written, ok: msgok afterwards]
PixelOut(ok, q) ==
  IF ok = FALSE \/ Len(q) <= 0
  THEN [take |-> 0, emit |-> << Pad, Pad >>, ok |-> ok]
  ELSE LET outc == q[1] IN
       IF outc = LF
       THEN [take |-> 1, emit |-> << Pad, Pad >>, ok |-> FALSE]
       ELSE IF IsWide(outc)
       THEN [take |-> 1, emit |-> << Msg(outc) >>, ok |-> ok]
       ELSE IF Len(q) - 1 <= 0
       THEN [take |-> 1, emit |-> PadSingle(outc), ok |-> ok]
       ELSE IF ~IsWide(q[2])
       THEN [take |-> 2, emit |-> PairOut(outc, q[2]),
             ok |-> IF q[2] = LF THEN FALSE ELSE ok]
       ELSE [take |-> 1, emit |-> PadSingle(outc), ok |-> ok]

\* one iteration of the loop of line 500
RPixel ==
  /\ pc = "R_px" /\ col < Len(img[l + 1])
  /\ LET color == img[l + 1][col + 1]
         ok    == IF color # "." THEN FALSE ELSE msgok
         r     == PixelOut(ok, msgChars)
     IN  /\ out' = out \o << PixelEsc(color) >> \o r.emit
         /\ printed' = printed \o MsgOf(r.emit)
         /\ msgChars' = SubSeq(msgChars, r.take + 1, Len(msgChars))
         /\ rowPopped' = rowPopped \o SubSeq(msgChars, 1, r.take)
         /\ msgok' = r.ok
  /\ col' = col + 1
  /\ UNCHANGED << pc, msg, inputs, img, layout, l, x, nlines, lastLine,
                  flushed, err >>

\* line 543
RRowEnd ==
  /\ pc = "R_px" /\ col >= Len(img[l + 1])
  /\ lastLine' = Append(out, Reset)
  /\ out' = <<>>
  /\ nlines' = nlines + 1
  /\ l' = l + 1
  /\ pc' = "R_row"
  /\ UNCHANGED << msg, inputs, img, layout, msgChars, col, msgok, x,
                  rowPopped, printed, flushed, err >>

\* line 544
RFlush ==
  /\ pc = "R_flush"
  /\ IF Len(msgChars) > 0
     THEN /\ flushed' = msgChars
          /\ nlines' = nlines + CountLF(msgChars) + 2
          /\ lastLine' = <<>>
          /\ out' = <<>>
     ELSE UNCHANGED << flushed, nlines, lastLine, out >>
  /\ pc' = "reset"
  /\ UNCHANGED << msg, inputs, img, layout, render, printed, err >>

-----------------------------------------------------------------------------
(* outLeft, lines 448-482. *)

\* lines 449-450
LOutBegin ==
  /\ pc = "render" /\ align = "L"
  /\ msgChars' = msg
  /\ out' = Append(out, Reset)
  /\ pc' = "L_row"
  /\ UNCHANGED << msg, inputs, img, layout, l, col, msgok, x, rowPopped,
                  nlines, lastLine, printed, flushed, err >>

\* lines 454-458: the pixels of one row, two cells each
RECURSIVE RowPixels(_)
RowPixels(row) ==
  IF row = <<>> THEN <<>>
  ELSE << PixelEsc(Head(row)), Pad, Pad >> \o RowPixels(Tail(row))

\* loop head of line 451 and lines 454-459
LRowPixels ==
  /\ pc = "L_row"
  /\ IF l < Len(img)
     THEN /\ out' = out \o RowPixels(img[l + 1]) \o << Reset >>
          /\ rowPopped' = <<>>
          /\ pc' = "L_check"
     ELSE /\ pc' = "L_flush"
          /\ UNCHANGED << out, rowPopped >>
  /\ UNCHANGED << msg, inputs, img, layout, msgChars, l, col, msgok, x,
                  nlines, lastLine, printed, flushed, err >>

\* lines 463-469
LRowCheck ==
  /\ pc = "L_check"
  /\ IF l < msgStart \/ Len(msgChars) <= 0
     THEN /\ lastLine' = out
          /\ out' = <<>>
          /\ nlines' = nlines + 1
          /\ l' = l + 1
          /\ pc' = "L_row"
          /\ x' = x
     ELSE /\ x' = Len(img[l + 1]) * 2
          /\ pc' = "L_msg"
          /\ UNCHANGED << lastLine, out, nlines, l >>
  /\ UNCHANGED << msg, inputs, img, layout, msgChars, col, msgok, rowPopped,
                  printed, flushed, err >>

\* the test of line 472
Straddles(c, xx, w) == IsWide(c) /\ xx + 1 >= w

\* one iteration of the loop of lines 470-481, or its exit; reading
\* msgChars[0] of an empty queue raises IndexError
LChar ==
  /\ pc = "L_msg"
  /\ IF ~(x < width)
     THEN /\ l' = l + 1
          /\ pc' = "L_row"
          /\ UNCHANGED << x, msgChars, rowPopped, out, nlines, lastLine,
                          printed, err >>
     ELSE IF msgChars = <<>>
     THEN /\ pc' = "error"
          /\ err' = Append(err, "IndexError: list index out of range")
          /\ UNCHANGED << x, msgChars, rowPopped, out, nlines, lastLine,
                          printed, l >>
     ELSE IF Straddles(msgChars[1], x, width)
     THEN /\ lastLine' = out \o Pads(width - x)
          /\ out' = <<>>
          /\ nlines' = nlines + 1
          /\ l' = l + 1
          /\ pc' = "L_row"
          /\ UNCHANGED << x, msgChars, rowPopped, printed, err >>
     ELSE /\ msgChars' = Tail(msgChars)
          /\ rowPopped' = Append(rowPopped, msgChars[1])
          /\ IF msgChars[1] = LF
             THEN /\ lastLine' = out \o Pads(width - x)
                  /\ out' = <<>>
                  /\ nlines' = nlines + 1
                  /\ l' = l + 1
                  /\ pc' = "L_row"
                  /\ UNCHANGED << x, printed, err >>
             ELSE /\ out' = Append(out, Msg(msgChars[1]))
                  /\ printed' = Append(printed, msgChars[1])
                  /\ x' = x + CharWidth(msgChars[1])
                  /\ UNCHANGED << pc, l, nlines, lastLine, err >>
  /\ UNCHANGED << msg, inputs, img, layout, col, msgok, flushed >>

\* line 482
LFlush ==
  /\ pc = "L_flush"
  /\ IF Len(msgChars) > 0
     THEN /\ flushed' = msgChars
          /\ nlines' = nlines + CountLF(msgChars) + 2
          /\ lastLine' = <<>>
          /\ out' = <<>>
     ELSE UNCHANGED << flushed, nlines, lastLine, out >>
  /\ pc' = "reset"
  /\ UNCHANGED << msg, inputs, img, layout, render, printed, err >>

\* line 555
FinalReset ==
  /\ pc = "reset"
  /\ out' = Append(out, Reset)
  /\ pc' = "done"
  /\ UNCHANGED << msg, inputs, img, layout, render, nlines, lastLine,
                  printed, flushed, err >>

-----------------------------------------------------------------------------

Next ==
  \/ Sanitize \/ CountLines \/ Narrow \/ Margin \/ ComputeStart
  \/ ROutBegin \/ RRow \/ RPixel \/ RRowEnd \/ RFlush
  \/ LOutBegin \/ LRowPixels \/ LRowCheck \/ LChar \/ LFlush
  \/ FinalReset

Spec == Init /\ [][Next]_vars

-----------------------------------------------------------------------------
(* Properties. *)

Range(s) == { s[i] : i \in 1..Len(s) }

NonLF(s) == SelectSeq(s, LAMBDA c : c # LF)

Min(a, b) == IF a < b THEN a ELSE b

Max(a, b) == IF a > b THEN a ELSE b

\* the face has been narrowed
Narrowed == pc \notin {"sanitize", "count", "narrow"}

\* row count of the face before narrowing
FullHeight == Len(imgTable[imgSeq + 1])

\* row length of the face before the margin is added
FullWidth == Len(imgTable[imgSeq + 1][1])

\* C1: in reduced mode the window bounds satisfy
\* 0 <= yStart <= yEnd <= H for every message line count.
C1_WindowInBounds ==
  (Narrowed /\ showWhole = FALSE)
    => (0 <= yStart /\ yStart <= yEnd /\ yEnd <= FullHeight)

\* C2: in reduced mode the narrowed bitmap has 6 rows when L < 6, L + 1 rows
\* when L >= 6 and L + 2 < H, and H rows otherwise.
C2_WindowRows ==
  (Narrowed /\ showWhole = FALSE)
    => Len(img) = (IF lineNum < 6 THEN 6
                   ELSE IF lineNum + 2 < FullHeight THEN lineNum + 1
                   ELSE FullHeight)

\* C3: sanitizing a sanitized message returns it unchanged.
C3_SanitizerIdempotent ==
  pc = "count" => Sanitizer(msg) = msg

\* C4: for both alignments the start row lies in the visible row range,
\* 0 <= msgStart < H; in Left alignment it is
\* min(max(0, H - L), centred candidate).
C4_StartRowVisible ==
  pc = "render"
    => /\ 0 <= msgStart
       /\ msgStart < Len(img)
       /\ align = "L" =>
            msgStart = Min(Max(0, Len(img) - lineNum),
                           Max(0, (Len(img) - lineNum + 1) \div 2))

\* cells counted by the scan after step s: two per leading background
\* pixel of the rows visited at steps 0..s
RECURSIVE Accumulated(_, _)
Accumulated(im, s) ==
  IF s < 0 THEN 0
  ELSE Accumulated(im, s - 1)
         + 2 * LeadingDots(im[ScanRow(Len(im), s) + 1])

\* steps at which the accumulated count meets or exceeds n
MeetSteps(im, n) == { s \in 0..(Len(im) - 1) : Accumulated(im, s) >= n }

\* steps at which the accumulated count exceeds n
ExceedSteps(im, n) == { s \in 0..(Len(im) - 1) : Accumulated(im, s) > n }

Least(S) == CHOOSE s \in S : \A t \in S : s <= t

\* floor(H/2 - L/2 + 0.5) clamped to >= 0
CentredRow(H, L) == Max(0, (H - L + 1) \div 2)

\* C5 as stated: in Right alignment the start row is the smaller of the row
\* reached by the scan at the first step where the accumulated count meets
\* or exceeds the message's display width, and the centred row.
C5_StartRowRightAsStated ==
  (pc = "render" /\ align = "R" /\ MeetSteps(img, countChar(msg)) # {})
    => msgStart =
         Min(ScanRow(Len(img), Least(MeetSteps(img, countChar(msg)))),
             CentredRow(Len(img), lineNum))

\* C5 (amended): in Right alignment the start row is the smaller of
\* (1) H/2 - round(s/2) for the first step s of the scan where the
\* accumulated count strictly exceeds the message's display width (line
\* terminators counting one cell each), or 0 when no step does, and
\* (2) the centred row floor(H/2 - L/2 + 0.5) clamped to >= 0.
C5_StartRowRight ==
  (pc = "render" /\ align = "R")
    => LET E == ExceedSteps(img, countChar(msg))
           c == IF E = {} THEN 0
                ELSE (Len(img) \div 2) - ((Least(E) + 1) \div 2)
       IN  msgStart = Min(c, CentredRow(Len(img), lineNum))

\* the scan decides the start row, at a step where the count had first met
\* the width exactly one step earlier
C5_Witness ==
  /\ pc = "render" /\ align = "R"
  /\ ExceedSteps(img, countChar(msg)) # {}
  /\ Least(MeetSteps(img, countChar(msg)))
       < Least(ExceedSteps(img, countChar(msg)))
  /\ msgStart < msgStart2

\* nothing has been written to standard output
StdoutEmpty ==
  out = <<>> /\ nlines = 0 /\ lastLine = <<>> /\ printed = <<>>
    /\ flushed = <<>>


\* the positions of the renderers
Rendering == pc \in {"R_row", "R_px", "R_flush", "L_row", "L_check", "L_msg",
                     "L_flush"}

\* C7: in both renderers the message characters written on the rows,
\* followed by the text flushed after the last row, are the sanitized
\* message's characters other than line terminators, in order, each once;
\* what is unconsumed after the last row is flushed verbatim.
C7_NoCharLost ==
  /\ Rendering => printed \o NonLF(msgChars) = NonLF(msg)
  /\ pc \in {"reset", "done"} =>
       /\ printed \o NonLF(flushed) = NonLF(msg)
       /\ flushed = msgChars

C7_Witness ==
  /\ pc = "done" /\ align = "R"
  /\ printed # <<>> /\ flushed # <<>>
  /\ \E i \in 1..Len(flushed) : flushed[i] # LF

\* what the last rendered pixel position wrote after its colour setting
LastPixel(line) ==
  LET e == CHOOSE i \in 1..Len(line) :
             /\ line[i].k = "esc"
             /\ \A j \in (i + 1)..Len(line) : line[j].k # "esc"
  IN  SubSeq(line, e + 1, Len(line))

\* a blank pair, one double-width character, two single-width characters,
\* or one single-width character and one space
TwoCellShape(e) ==
  \/ e = << Pad, Pad >>
  \/ Len(e) = 1 /\ e[1].k = "msg" /\ IsWide(e[1].c)
  \/ Len(e) = 2 /\ e[1].k = "msg" /\ ~IsWide(e[1].c)
       /\ e[2].k = "msg" /\ ~IsWide(e[2].c)
  \/ Len(e) = 2 /\ e[1].k = "msg" /\ ~IsWide(e[1].c) /\ e[2] = Pad

\* C9: in Right-mode rendering every pixel position writes exactly 2 cells,
\* so after col pixels the row holds 2 * col cells, a whole row
\* 2 * rowLength cells, which does not exceed the terminal column count.
C9_TwoCellGrid ==
  pc = "R_px" =>
    /\ Cells(out) = 2 * col
    /\ col > 0 => TwoCellShape(LastPixel(out))
    /\ 2 * Len(img[l + 1]) <= width

C9_Witness ==
  /\ pc = "R_px" /\ col = Len(img[l + 1])
  /\ Cells(out) = 2 * Len(img[l + 1])
  /\ \E i \in 1..(Len(rowPopped) - 2) :
       /\ ~IsWide(rowPopped[i]) /\ rowPopped[i] # LF
       /\ IsWide(rowPopped[i + 1])
       /\ ~IsWide(rowPopped[i + 2])

\* C10: in Right-mode rendering a pixel position takes message characters
\* only on a row >= msgStart, with no face pixel on the row up to and
\* including this position and no line terminator taken earlier on the row;
\* every other position writes a blank pair and leaves the queue unchanged.
C10_MessageConfined ==
  [][(pc = "R_px" /\ col' = col + 1) =>
       LET allowed == /\ l >= msgStart
                      /\ \A j \in 1..(col + 1) : img[l + 1][j] = "."
                      /\ LF \notin Range(rowPopped)
       IN  /\ msgChars' # msgChars => allowed
           /\ ~allowed =>
                /\ msgChars' = msgChars
                /\ out' = out \o << PixelEsc(img[l + 1][col + 1]), Pad, Pad >>
                /\ printed' = printed]_vars

\* a background position on a message row that stays blank only because a
\* line terminator was taken earlier on the row
C10_Witness ==
  /\ pc = "R_px" /\ col > 0 /\ col < Len(img[l + 1])
  /\ l >= msgStart
  /\ \A j \in 1..col : img[l + 1][j] = "."
  /\ LF \in Range(rowPopped)
  /\ msgChars # <<>>
  /\ LastPixel(out) = << Pad, Pad >>
  /\ Len(rowPopped) = 1

\* C8: in Left-mode rendering, whenever message emission on a row stops,
\* the rest of the line is padded with spaces up to the terminal width and a
\* line break is written before the next row's pixels; the cursor column
\* never exceeds the terminal width.
C8_LeftRowEnds ==
  /\ [][(pc = "L_msg" /\ pc' = "L_row") =>
          (nlines' = nlines + 1 /\ Cells(lastLine') = width /\ out' = <<>>)]_vars
  /\ [](pc = "L_msg" => x <= width)

\* the message has been sanitized
Sanitized == pc # "sanitize"

\* C11: in Left-mode rendering the head of the message queue is never read
\* while the queue is empty: a non-empty sanitized message ends with a line
\* terminator, and whenever the emission loop is about to read the head
\* (cursor below the terminal width) the queue is not empty.
C11_HeadNeverReadEmpty ==
  /\ pc # "error"
  /\ (Sanitized /\ msg # <<>>) => msg[Len(msg)] = LF
  /\ (pc = "L_msg" /\ x < width) =>
       (msgChars # <<>> /\ msgChars[Len(msgChars)] = LF)

\* the loop goes on after writing characters, with room left on the line
\* and only the final line terminator in the queue
C11_Witness ==
  /\ pc = "L_msg" /\ x < width
  /\ rowPopped # <<>> /\ LF \notin Range(rowPopped)
  /\ msgChars = << LF >>

=============================================================================
